---- MODULE Spec2Model ----
(***************************************************************************)
(* CHD risk prediction service: the four server programs of the repository *)
(*   "app"    src/backend/app.py                 (FastAPI)                 *)
(*   "flask"  src/backend/chd_prediction_api.py  (Flask)                   *)
(*   "simple" src/backend/simple_api.py          (Flask)                   *)
(*   "root"   src/chd_prediction_api.py          (Flask)                   *)
(* One behaviour follows one server process: its process-wide variables    *)
(* (model, scaler, model_info / feature list), the artifact files on disk, *)
(* and the request in flight with the response the handler gave it.  A      *)
(* request is received (pc = "received"), handled by its endpoint's handler *)
(* in one step (pc = "responded") and delivered (pc = "idle").             *)
(* Spec is that process, one request at a time, from its start;           *)
(* SpecConcurrent is a loaded server with two requests in flight.          *)
(*                                                                         *)
(* Numbers: every health metric is held in tenths (BMI 24.9 is 249, sysBP  *)
(* 120 is 1200), so that the source's one-decimal constants are integers.  *)
(* Probabilities are held in hundredths (0.4 is 40).                       *)
(***************************************************************************)
EXTENDS Integers, Sequences, FiniteSets, TLC

VARIABLES server, phase, artifacts, model, scaler, model_info, pc, req, resp,
          load_calls,   \* history: "none" while load_model was never called,
                        \* "succeeded" once a call returned True, else "failed"
          figures       \* matplotlib.pyplot's open figures, the current one last

vars == <<server, phase, artifacts, model, scaler, model_info, pc, req, resp,
          load_calls, figures>>

Servers == {"app", "flask", "simple", "root"}
FlaskServers == {"flask", "simple"}

\* x units of the source, in tenths
T(x) == x * 10

Min(S) == CHOOSE x \in S : \A y \in S : x <= y

Range(s) == {s[i] : i \in DOMAIN s}

RECURSIVE Concat(_)
Concat(ss) == IF ss = <<>> THEN <<>> ELSE Head(ss) \o Concat(Tail(ss))

-----------------------------------------------------------------------------
(* The patient record *)

\* train_model.py feature_columns: the order the model was trained on
FeatureColumns ==
    <<"age", "education", "sex", "is_smoking", "cigsPerDay",
      "BPMeds", "prevalentStroke", "prevalentHyp", "diabetes",
      "totChol", "sysBP", "diaBP", "BMI", "heartRate", "glucose">>

Fields == Range(FeatureColumns)

CategoricalFields ==
    <<"sex", "is_smoking", "BPMeds", "prevalentStroke", "prevalentHyp", "diabetes">>

CatSet == Range(CategoricalFields)

NumericFields == Fields \ CatSet

\* A JSON value: a number (in tenths) or a string
Num(n) == [k |-> "num", n |-> n, s |-> ""]
Str(s) == [k |-> "str", n |-> 0, s |-> s]

\* Python float(str) / pandas to_numeric on the string tokens of the model:
\* the numeric strings parse to their value, every other string does not.
NumericStrings == {"0", "1", "20", "180", "250", "31"}

StrToNum(s) ==
    CASE s = "0" -> T(0)
      [] s = "1" -> T(1)
      [] s = "20" -> T(20)
      [] s = "180" -> T(180)
      [] s = "250" -> T(250)
      [] s = "31" -> T(31)

\* float(value): [ok, n]; ok = FALSE stands for the ValueError
PyFloat(v) ==
    IF v.k = "num" THEN [ok |-> TRUE, n |-> v.n]
    ELSE IF v.s \in NumericStrings THEN [ok |-> TRUE, n |-> StrToNum(v.s)]
    ELSE [ok |-> FALSE, n |-> 0]

\* str.upper() on the tokens of the model
Upper(s) ==
    CASE s \in {"M", "m"} -> "M"
      [] s \in {"F", "f"} -> "F"
      [] s \in {"Male", "male", "MALE"} -> "MALE"
      [] s \in {"Female", "female", "FEMALE"} -> "FEMALE"
      [] s \in {"YES", "Yes", "yes", "yEs"} -> "YES"
      [] s \in {"NO", "No", "no"} -> "NO"
      [] s \in {"maybe", "Maybe"} -> "MAYBE"
      [] s = "x" -> "X"
      [] OTHER -> s


-----------------------------------------------------------------------------
(* Requests: the JSON bodies the model sends *)

Absent == [k |-> "absent", n |-> 0, s |-> ""]

\* The spec's high-risk scenario (also risk_level_test.py "HIGH RISK CASE")
HighProfile ==
    [age |-> Num(T(65)), education |-> Num(T(1)), sex |-> Str("M"),
     is_smoking |-> Str("YES"), cigsPerDay |-> Num(T(30)), BPMeds |-> Str("YES"),
     prevalentStroke |-> Str("YES"), prevalentHyp |-> Str("YES"),
     diabetes |-> Str("YES"), totChol |-> Num(T(280)), sysBP |-> Num(T(180)),
     diaBP |-> Num(T(110)), BMI |-> Num(T(32)), heartRate |-> Num(T(88)),
     glucose |-> Num(T(130))]

\* risk_level_test.py "MEDIUM RISK CASE"
MediumProfile ==
    [age |-> Num(T(50)), education |-> Num(T(3)), sex |-> Str("F"),
     is_smoking |-> Str("YES"), cigsPerDay |-> Num(T(10)), BPMeds |-> Str("NO"),
     prevalentStroke |-> Str("NO"), prevalentHyp |-> Str("NO"),
     diabetes |-> Str("NO"), totChol |-> Num(T(200)), sysBP |-> Num(T(130)),
     diaBP |-> Num(T(85)), BMI |-> Num(T(26)), heartRate |-> Num(T(72)),
     glucose |-> Num(T(90))]

\* The spec's healthy-midpoints scenario
HealthyProfile ==
    [age |-> Num(T(35)), education |-> Num(T(4)), sex |-> Str("F"),
     is_smoking |-> Str("NO"), cigsPerDay |-> Num(T(0)), BPMeds |-> Str("NO"),
     prevalentStroke |-> Str("NO"), prevalentHyp |-> Str("NO"),
     diabetes |-> Str("NO"), totChol |-> Num(T(170)), sysBP |-> Num(T(110)),
     diaBP |-> Num(T(70)), BMI |-> Num(T(22)), heartRate |-> Num(T(65)),
     glucose |-> Num(T(80))]

Profiles == {HighProfile, MediumProfile, HealthyProfile}

\* The values one field of a profile is replaced by
FieldValues(f) ==
    CASE f = "sex" ->
           {Str("M"), Str("F"), Str("Male"), Str("female"), Str("m"), Str("x"), Absent}
      [] f = "is_smoking" ->
           {Str("YES"), Str("NO"), Str("Yes"), Str("No"), Str("yes"), Str("no"),
            Str("yEs"), Str("maybe"), Absent}
      [] f \in {"BPMeds", "prevalentStroke", "prevalentHyp", "diabetes"} ->
           {Str("YES"), Str("NO"), Str("yes"), Str("maybe"), Absent}
      [] f = "age" ->
           {Num(T(15)), Num(T(19)), Num(T(70)), Num(T(110)), Num(T(130)),
            Str("abc"), Absent}
      [] f = "education" -> {Num(T(1)), Str("1"), Absent}
      [] f = "cigsPerDay" -> {Num(T(0)), Num(T(20)), Str("20"), Str("0"), Absent}
      [] f = "totChol" ->
           {Num(T(100)), Num(T(190)), Num(T(200)), Num(T(220)), Str("250"), Absent}
      [] f = "sysBP" ->
           {Num(T(80)), Num(T(100)), Num(T(120)), Num(T(130)), Num(T(150)),
            Str("180"), Str("abc"), Absent}
      [] f = "diaBP" ->
           {Num(T(50)), Num(T(75)), Num(T(80)), Num(T(85)), Num(T(95)), Absent}
      [] f = "BMI" ->
           {Num(170), Num(185), Num(230), Num(249), Num(250), Num(310),
            Str("31"), Absent}
      [] f = "heartRate" ->
           {Num(T(50)), Num(T(90)), Num(T(100)), Num(T(110)), Absent}
      [] f = "glucose" ->
           {Num(T(60)), Num(T(90)), Num(T(100)), Num(T(120)), Absent}

Reverse(s) == [i \in 1..Len(s) |-> s[Len(s) + 1 - i]]

\* The orders a client lists the JSON keys in
KeyOrders == {FeatureColumns, Reverse(FeatureColumns)}

\* The keys of the JSON object, in the client's order: absent fields left out
KeysOf(vals, order) == SelectSeq(order, LAMBDA f : vals[f] # Absent)

\* Every profile, with any one field replaced, in every key order
Requests ==
    {[vals |-> [b EXCEPT ![d[1]] = d[2]], keys |-> KeysOf([b EXCEPT ![d[1]] = d[2]], o),
      json |-> "object"] :
        b \in Profiles,
        d \in UNION {{<<f, v>> : v \in FieldValues(f)} : f \in Fields},
        o \in KeyOrders}

\* What the loaded classifier answers: the class label and the disease
\* probability (hundredths).  The classifier is an opaque pickled artifact;
\* values outside [0, 100] stand for an estimator that breaks the
\* predict_proba contract.
Probabilities == {-5, 0, 10, 19, 20, 29, 30, 39, 40, 50, 69, 70, 100, 130}

\* predict() of a scikit-learn classifier is the class of the larger
\* probability; at a tie, and where the probability is out of contract, either
ModelOutputs ==
    {[prediction |-> l, p |-> q] : l \in {0, 1}, q \in Probabilities} \
        {o \in [prediction : {0, 1}, p : Probabilities] :
            \/ o.p \in 0..49 /\ o.prediction = 1
            \/ o.p \in 51..100 /\ o.prediction = 0}

-----------------------------------------------------------------------------
(* backend/app.py: the FastAPI server's pure functions *)

\* PredictionRequest: every field is required; the categorical fields are
\* strings, the others numbers (numeric strings are coerced), ge=0, and age
\* is at most 120.  A body that fails is answered 422 by the framework.
App_PredictionRequest(r) ==
    /\ \A f \in Fields : r.vals[f] # Absent
    /\ \A f \in CatSet : r.vals[f].k = "str"
    /\ \A f \in NumericFields : PyFloat(r.vals[f]).ok /\ PyFloat(r.vals[f]).n >= 0
    /\ PyFloat(r.vals["age"]).n <= T(120)

\* The request after validation: the numeric fields as numbers
App_request(r) ==
    [f \in Fields |-> IF f \in CatSet THEN r.vals[f] ELSE Num(PyFloat(r.vals[f]).n)]

\* NORMAL_RANGES: min and max in tenths; has_max is FALSE for the entries that
\* hold a description only
App_NORMAL_RANGES ==
    [age |-> [has_max |-> TRUE, min |-> T(20), max |-> T(120)],
     education |-> [has_max |-> FALSE, min |-> 0, max |-> 0],
     sex |-> [has_max |-> FALSE, min |-> 0, max |-> 0],
     is_smoking |-> [has_max |-> FALSE, min |-> 0, max |-> 0],
     cigsPerDay |-> [has_max |-> TRUE, min |-> 0, max |-> 0],
     BPMeds |-> [has_max |-> TRUE, min |-> 0, max |-> 0],
     prevalentStroke |-> [has_max |-> TRUE, min |-> 0, max |-> 0],
     prevalentHyp |-> [has_max |-> TRUE, min |-> 0, max |-> 0],
     diabetes |-> [has_max |-> TRUE, min |-> 0, max |-> 0],
     totChol |-> [has_max |-> TRUE, min |-> T(125), max |-> T(200)],
     sysBP |-> [has_max |-> TRUE, min |-> T(90), max |-> T(120)],
     diaBP |-> [has_max |-> TRUE, min |-> T(60), max |-> T(80)],
     BMI |-> [has_max |-> TRUE, min |-> 185, max |-> 249],
     heartRate |-> [has_max |-> TRUE, min |-> T(60), max |-> T(100)],
     glucose |-> [has_max |-> TRUE, min |-> T(70), max |-> T(100)]]

\* CATEGORICAL_MAPPINGS, each mapping in its insertion order
App_CATEGORICAL_MAPPINGS(field) ==
    IF field = "sex"
    THEN << <<"M", 1>>, <<"F", 0>>, <<"Male", 1>>, <<"Female", 0>> >>
    ELSE << <<"YES", 1>>, <<"NO", 0>>, <<"Yes", 1>>, <<"No", 0>> >>

\* App_map_categorical_to_numeric comparing the value with the keys as they
\* are written, without upper()
App_map_categorical_exact(value, field) ==
    LET mapping == App_CATEGORICAL_MAPPINGS(field)
        hits == {i \in DOMAIN mapping : value = mapping[i][1]}
    IN IF hits = {}
       THEN [ok |-> FALSE, code |-> 0]
       ELSE [ok |-> TRUE, code |-> mapping[Min(hits)][2]]

\* map_categorical_to_numeric: the code of the first key equal to the value
\* up to case; ok = FALSE stands for the ValueError, which names the field
App_map_categorical_to_numeric(value, field) ==
    LET mapping == App_CATEGORICAL_MAPPINGS(field)
        hits == {i \in DOMAIN mapping : Upper(value) = Upper(mapping[i][1])}
    IN IF hits = {}
       THEN [ok |-> FALSE, code |-> 0]
       ELSE [ok |-> TRUE, code |-> mapping[Min(hits)][2]]

\* predict, lines 445-450: the six fields are mapped in this order and the
\* first ValueError ends the block; the field it names, "" when none is raised
App_first_invalid(request) ==
    LET bad == {i \in DOMAIN CategoricalFields :
                  ~App_map_categorical_to_numeric(
                      request[CategoricalFields[i]].s, CategoricalFields[i]).ok}
    IN IF bad = {} THEN "" ELSE CategoricalFields[Min(bad)]

\* predict, lines 455-471: data_dict, its keys in insertion order
App_data_dict_keys ==
    <<"age", "education", "sex", "is_smoking", "cigsPerDay", "BPMeds",
      "prevalentStroke", "prevalentHyp", "diabetes", "totChol", "sysBP",
      "diaBP", "BMI", "heartRate", "glucose">>

App_data_dict(request) ==
    [f \in Fields |->
        IF f \in CatSet
        THEN T(App_map_categorical_to_numeric(request[f].s, f).code)
        ELSE request[f].n]

\* predict, lines 474-490: the DataFrame's columns, in the order written
App_data_columns ==
    <<"age", "education", "sex", "is_smoking", "cigsPerDay", "BPMeds",
      "prevalentStroke", "prevalentHyp", "diabetes", "totChol", "sysBP",
      "diaBP", "BMI", "heartRate", "glucose">>

App_data(request) ==
    [i \in DOMAIN App_data_columns |-> App_data_dict(request)[App_data_columns[i]]]

\* App_risk_level with the upper threshold exclusive (> for >=)
App_risk_level_exclusive(disease_prob) ==
    IF disease_prob > 40 THEN "HIGH RISK"
    ELSE IF disease_prob >= 20 THEN "MEDIUM RISK"
    ELSE "LOW RISK"

\* predict, lines 503-510
App_risk_level(disease_prob) ==
    IF disease_prob >= 40 THEN "HIGH RISK"
    ELSE IF disease_prob >= 20 THEN "MEDIUM RISK"
    ELSE "LOW RISK"

RiskFactor(feature, value, status) ==
    [feature |-> feature, value |-> value, status |-> status]

\* predict, lines 528-558: what one feature of data_dict appends
App_feature_risk(feature, value) ==
    (IF App_NORMAL_RANGES[feature].has_max /\ value > App_NORMAL_RANGES[feature].max
     THEN <<RiskFactor(feature, Num(value), "High")>> ELSE <<>>)
    \o (IF feature = "is_smoking" /\ value = T(1)
        THEN <<RiskFactor(feature, Num(value), "High")>> ELSE <<>>)
    \o (IF feature = "prevalentHyp" /\ value = T(1)
        THEN <<RiskFactor(feature, Num(value), "High")>> ELSE <<>>)
    \o (IF feature = "diabetes" /\ value = T(1)
        THEN <<RiskFactor(feature, Num(value), "High")>> ELSE <<>>)

\* predict, lines 512-558: the loop over data_dict.items()
App_risk_factors(data_dict) ==
    Concat([i \in DOMAIN App_data_dict_keys |->
              App_feature_risk(App_data_dict_keys[i], data_dict[App_data_dict_keys[i]])])

Rec(title, priority, feature) ==
    [title |-> title, priority |-> priority, feature |-> feature]

\* generate_preventive_recommendations: one "Monitor Your <feature>" per
\* feature whose value is above 85% of its normal max and not above the max
App_generate_preventive_recommendations(data) ==
    Concat([i \in DOMAIN App_data_dict_keys |->
        LET feature == App_data_dict_keys[i]
            value == data[feature]
            normal_max == App_NORMAL_RANGES[feature].max
        IN IF /\ App_NORMAL_RANGES[feature].has_max
              /\ value * 100 > normal_max * 85
              /\ value <= normal_max
           THEN <<Rec("Monitor Your", "preventive", feature)>>
           ELSE <<>>])

\* generate_recommendations, lines 141-182: the tier's messages
App_tier_recommendations(risk_level) ==
    IF risk_level = "HIGH RISK"
    THEN <<Rec("Immediate Medical Consultation", "urgent", ""),
           Rec("Lifestyle Changes", "high", "")>>
    ELSE IF risk_level = "MEDIUM RISK"
    THEN <<Rec("Schedule Medical Consultation", "medium", ""),
           Rec("Lifestyle Modifications", "medium", ""),
           Rec("Monitor Health Metrics", "medium", "")>>
    ELSE IF risk_level = "LOW RISK"
    THEN <<Rec("Maintain Current Health Status", "maintenance", "")>>
    ELSE <<>>

\* generate_recommendations, lines 185-215: the message of one risk factor
App_factor_recommendation(factor) ==
    IF factor.feature = "is_smoking" /\ factor.status = "High"
    THEN <<Rec("Quit Smoking", "high", "")>>
    ELSE IF factor.feature = "BMI" /\ factor.status = "High"
    THEN <<Rec("Weight Management", "medium", "")>>
    ELSE IF factor.feature \in {"sysBP", "diaBP"} /\ factor.status = "High"
    THEN <<Rec("Blood Pressure Management", "high", "")>>
    ELSE IF factor.feature = "totChol" /\ factor.status = "High"
    THEN <<Rec("Cholesterol Management", "medium", "")>>
    ELSE IF factor.feature = "glucose" /\ factor.status = "High"
    THEN <<Rec("Blood Sugar Management", "medium", "")>>
    ELSE <<>>

\* generate_recommendations, lines 217-220: the guard of the preventive pass
App_preventive_pass(risk_level) == risk_level = "Low"

\* generate_recommendations before the cut: data is a non-empty dict in predict
App_assembled_recommendations(risk_factors, risk_level, data) ==
    App_tier_recommendations(risk_level)
    \o Concat([i \in DOMAIN risk_factors |-> App_factor_recommendation(risk_factors[i])])
    \o (IF App_preventive_pass(risk_level)
        THEN App_generate_preventive_recommendations(data) ELSE <<>>)

\* App_generate_recommendations keeping the last 8 items instead of the first
App_generate_recommendations_tail(risk_factors, risk_level, data) ==
    LET all == App_assembled_recommendations(risk_factors, risk_level, data)
    IN SubSeq(all, IF Len(all) > 8 THEN Len(all) - 7 ELSE 1, Len(all))

\* recommendations[:8]
App_generate_recommendations(risk_factors, risk_level, data) ==
    SubSeq(App_assembled_recommendations(risk_factors, risk_level, data), 1,
           IF Len(App_assembled_recommendations(risk_factors, risk_level, data)) < 8
           THEN Len(App_assembled_recommendations(risk_factors, risk_level, data))
           ELSE 8)

-----------------------------------------------------------------------------
(* backend/chd_prediction_api.py and backend/simple_api.py: the Flask servers *)

\* A DataFrame cell: a number (tenths) or NaN
Cell(n) == [nan |-> FALSE, n |-> n]
NaN == [nan |-> TRUE, n |-> 0]

\* preprocess_input, categorical_mappings and Series.map: an exact lookup,
\* NaN for a value that is no key
Flask_map(col, v) ==
    IF col = "sex"
    THEN (IF v = Str("M") THEN Cell(T(1)) ELSE IF v = Str("F") THEN Cell(T(0)) ELSE NaN)
    ELSE (IF v = Str("YES") THEN Cell(T(1)) ELSE IF v = Str("NO") THEN Cell(T(0)) ELSE NaN)

\* pd.to_numeric(errors='coerce')
ToNumericCoerce(v) == IF PyFloat(v).ok THEN Cell(PyFloat(v).n) ELSE NaN

\* preprocess_input: one column of df after the mapping and the conversions
Flask_column(data, col) ==
    IF col \in CatSet THEN Flask_map(col, data.vals[col]) ELSE ToNumericCoerce(data.vals[col])

\* DataFrame.fillna(0)
FillNa0(c) == IF c.nan THEN 0 ELSE c.n

\* Flask_preprocess_input without the selection df[feature_columns]: the
\* DataFrame's columns as pd.DataFrame([data]) lays them out, in the order of
\* the body's keys
Flask_preprocess_input_unselected(data, feature_columns_loaded) ==
    IF ~feature_columns_loaded \/ \E f \in Fields : data.vals[f] = Absent
    THEN [ok |-> FALSE, values |-> <<>>]
    ELSE [ok |-> TRUE,
          values |-> [i \in DOMAIN data.keys |->
                        FillNa0(Flask_column(data, data.keys[i]))]]

\* preprocess_input: df[feature_columns].fillna(0).values; ok = FALSE stands
\* for the None returned when anything raises (a column of feature_columns
\* that the body lacks is a KeyError, and so is feature_columns = None)
Flask_preprocess_input(data, feature_columns_loaded) ==
    IF ~feature_columns_loaded \/ \E f \in Fields : data.vals[f] = Absent
    THEN [ok |-> FALSE, values |-> <<>>]
    ELSE [ok |-> TRUE,
          values |-> [i \in DOMAIN FeatureColumns |->
                        FillNa0(Flask_column(data, FeatureColumns[i]))]]

\* analyze_risk_factors / analyze / analyze_risk_progression: normal_ranges in
\* insertion order, <<feature, min, max>>
Flask_normal_ranges ==
    << <<"age", T(18), T(65)>>, <<"totChol", T(0), T(200)>>, <<"sysBP", T(90), T(140)>>,
       <<"diaBP", T(60), T(90)>>, <<"BMI", 185, 249>>, <<"heartRate", T(60), T(100)>>,
       <<"glucose", T(70), T(100)>> >>

\* float(data[feature]) raises for a range feature of the body
Flask_float_raises(data) ==
    \E i \in DOMAIN Flask_normal_ranges :
        /\ data.vals[Flask_normal_ranges[i][1]] # Absent
        /\ ~PyFloat(data.vals[Flask_normal_ranges[i][1]]).ok

\* analyze_risk_factors, lines 106-116: the entry of one range
Flask_range_risk(data, range) ==
    LET value == PyFloat(data.vals[range[1]]).n
    IN IF data.vals[range[1]] # Absent /\ (value < range[2] \/ value > range[3])
       THEN <<RiskFactor(range[1], Num(value), IF value > range[3] THEN "High" ELSE "Low")>>
       ELSE <<>>

\* analyze_risk_factors, lines 118-141: the categorical risk factors
Flask_categorical_risk(data) ==
    (IF data.vals["is_smoking"] = Str("YES")
     THEN <<RiskFactor("smoking", Str("Yes"), "High")>> ELSE <<>>)
    \o (IF data.vals["diabetes"] = Str("YES")
        THEN <<RiskFactor("diabetes", Str("Yes"), "High")>> ELSE <<>>)
    \o (IF data.vals["prevalentHyp"] = Str("YES")
        THEN <<RiskFactor("hypertension", Str("Yes"), "High")>> ELSE <<>>)

\* analyze_risk_factors; defined when Flask_float_raises(data) is false
Flask_analyze_risk_factors(data) ==
    Concat([i \in DOMAIN Flask_normal_ranges |->
              Flask_range_risk(data, Flask_normal_ranges[i])])
    \o Flask_categorical_risk(data)

\* Flask_normal_values with the bounds of the range excluded
Flask_normal_values_strict(data) ==
    Concat([i \in DOMAIN Flask_normal_ranges |->
        LET range == Flask_normal_ranges[i]
            value == PyFloat(data.vals[range[1]]).n
        IN IF data.vals[range[1]] # Absent /\ range[2] < value /\ value < range[3]
           THEN <<RiskFactor(range[1], Num(value), "Normal")>>
           ELSE <<>>])

\* analyze, lines 531-539
Flask_normal_values(data) ==
    Concat([i \in DOMAIN Flask_normal_ranges |->
        LET range == Flask_normal_ranges[i]
            value == PyFloat(data.vals[range[1]]).n
        IN IF data.vals[range[1]] # Absent /\ range[2] <= value /\ value <= range[3]
           THEN <<RiskFactor(range[1], Num(value), "Normal")>>
           ELSE <<>>])

\* Flask_risk_level with the labels of the last two branches exchanged
Flask_risk_level_swapped(chd_probability) ==
    IF chd_probability < 30 THEN "Low"
    ELSE IF chd_probability < 70 THEN "High"
    ELSE "Medium"

\* predict, lines 467-474 (simple_api.py 213-220)
Flask_risk_level(chd_probability) ==
    IF chd_probability < 30 THEN "Low"
    ELSE IF chd_probability < 70 THEN "Medium"
    ELSE "High"

\* float(data.get(f, 0)) of generate_preventive_recommendations
GetFloat0(data, f) ==
    IF data.vals[f] = Absent THEN [ok |-> TRUE, n |-> 0] ELSE PyFloat(data.vals[f])

Flask_preventive_features ==
    <<"age", "BMI", "sysBP", "diaBP", "totChol", "heartRate", "glucose", "cigsPerDay">>

Flask_preventive_raises(data) ==
    \E i \in DOMAIN Flask_preventive_features :
        ~GetFloat0(data, Flask_preventive_features[i]).ok

\* backend/chd_prediction_api.py generate_preventive_recommendations, before
\* its [:6]
Flask_preventive_all(data) ==
    LET age == GetFloat0(data, "age").n
        bmi == GetFloat0(data, "BMI").n
        sys_bp == GetFloat0(data, "sysBP").n
        dia_bp == GetFloat0(data, "diaBP").n
        tot_chol == GetFloat0(data, "totChol").n
        heart_rate == GetFloat0(data, "heartRate").n
        glucose == GetFloat0(data, "glucose").n
        cigs_per_day == GetFloat0(data, "cigsPerDay").n
    IN (IF age > T(40)
        THEN <<Rec("Age-Related Cardiovascular Monitoring", "preventive", "")>> ELSE <<>>)
       \o (IF 185 <= bmi /\ bmi <= 249
           THEN <<Rec("Maintain Healthy Weight", "maintenance", "")>>
           ELSE IF bmi > 249
           THEN <<Rec("Weight Management for Prevention", "preventive", "")>> ELSE <<>>)
       \o (IF T(90) <= sys_bp /\ sys_bp <= T(120) /\ T(60) <= dia_bp /\ dia_bp <= T(80)
           THEN <<Rec("Excellent Blood Pressure Control", "maintenance", "")>>
           ELSE IF sys_bp > T(120) \/ dia_bp > T(80)
           THEN <<Rec("Blood Pressure Prevention Strategy", "preventive", "")>> ELSE <<>>)
       \o (IF tot_chol < T(200)
           THEN <<Rec("Healthy Cholesterol Levels", "maintenance", "")>>
           ELSE IF T(200) <= tot_chol /\ tot_chol <= T(239)
           THEN <<Rec("Cholesterol Prevention Plan", "preventive", "")>> ELSE <<>>)
       \o (IF T(60) <= heart_rate /\ heart_rate <= T(100)
           THEN <<Rec("Healthy Heart Rate", "maintenance", "")>> ELSE <<>>)
       \o (IF T(70) <= glucose /\ glucose <= T(100)
           THEN <<Rec("Excellent Blood Sugar Control", "maintenance", "")>> ELSE <<>>)
       \o (IF cigs_per_day = 0
           THEN <<Rec("Stay Smoke-Free", "maintenance", "")>> ELSE <<>>)
       \o <<Rec("Regular Physical Activity", "preventive", ""),
            Rec("Heart-Healthy Diet", "preventive", ""),
            Rec("Stress Management", "preventive", ""),
            Rec("Quality Sleep", "preventive", "")>>

\* s[:n]
Take(s, n) == SubSeq(s, 1, IF Len(s) < n THEN Len(s) ELSE n)

\* preventive_recs[:6]
Flask_generate_preventive_recommendations(data) == Take(Flask_preventive_all(data), 6)

\* backend/chd_prediction_api.py generate_recommendations, lines 149-175
Flask_tier_recommendations(risk_level) ==
    IF risk_level = "High"
    THEN <<Rec("Immediate Medical Consultation", "urgent", ""),
           Rec("Lifestyle Changes", "high", "")>>
    ELSE IF risk_level = "Low"
    THEN <<Rec("Maintain Current Health Status", "maintenance", ""),
           Rec("Regular Health Monitoring", "preventive", "")>>
    ELSE <<>>

\* backend/chd_prediction_api.py generate_recommendations, lines 178-203
Flask_factor_recommendation(factor) ==
    IF factor.feature = "smoking"
    THEN <<Rec("Quit Smoking", "high", "")>>
    ELSE IF factor.feature = "BMI"
    THEN (IF factor.status = "High"
          THEN <<Rec("Weight Management", "medium", "")>> ELSE <<>>)
    ELSE IF factor.feature \in {"sysBP", "diaBP"}
    THEN <<Rec("Blood Pressure Management", "high", "")>>
    ELSE IF factor.feature = "totChol"
    THEN <<Rec("Cholesterol Management", "medium", "")>>
    ELSE <<>>

\* The body passed as data is truthy: predict returned 400 on an empty one
Flask_assembled_recommendations(risk_factors, risk_level, data) ==
    Flask_tier_recommendations(risk_level)
    \o Concat([i \in DOMAIN risk_factors |-> Flask_factor_recommendation(risk_factors[i])])
    \o (IF risk_level = "Low"
        THEN Flask_generate_preventive_recommendations(data) ELSE <<>>)

\* recommendations[:8]
Flask_generate_recommendations(risk_factors, risk_level, data) ==
    Take(Flask_assembled_recommendations(risk_factors, risk_level, data), 8)

\* analyze_risk_progression: risk_thresholds.get(feature, normal_max * 1.5)
Flask_risk_threshold(feature, normal_max) ==
    CASE feature = "totChol" -> T(240)
      [] feature = "sysBP" -> T(160)
      [] feature = "diaBP" -> T(100)
      [] feature = "BMI" -> T(30)
      [] feature = "heartRate" -> T(120)
      [] feature = "glucose" -> T(126)
      [] OTHER -> (normal_max * 3) \div 2

\* analyze_risk_progression: <<feature, vulnerability>> of every range feature
\* of the body that is below its normal max
Flask_analyze_risk_progression(data) ==
    Concat([i \in DOMAIN Flask_normal_ranges |->
        LET range == Flask_normal_ranges[i]
            current_value == PyFloat(data.vals[range[1]]).n
            increase_to_risk == Flask_risk_threshold(range[1], range[3]) - current_value
        IN IF data.vals[range[1]] # Absent /\ current_value < range[3]
           THEN << <<range[1],
                     IF current_value > 0 /\ increase_to_risk * 100 > 50 * current_value
                     THEN "low"
                     ELSE IF current_value > 0 /\ increase_to_risk * 100 > 25 * current_value
                     THEN "medium"
                     ELSE "high">> >>
           ELSE <<>>])

\* simple_api.py generate_recommendations, lines 143-153
Simple_tier_recommendations(risk_level) ==
    IF risk_level = "High"
    THEN <<Rec("Immediate Medical Consultation", "", ""),
           Rec("Lifestyle Changes", "", "")>>
    ELSE <<>>

\* simple_api.py generate_recommendations, lines 156-176
Simple_factor_recommendation(factor) ==
    IF factor.feature = "smoking"
    THEN <<Rec("Quit Smoking", "", "")>>
    ELSE IF factor.feature = "BMI"
    THEN <<Rec("Weight Management", "", "")>>
    ELSE IF factor.feature \in {"sysBP", "diaBP"}
    THEN <<Rec("Blood Pressure Management", "", "")>>
    ELSE IF factor.feature = "totChol"
    THEN <<Rec("Cholesterol Management", "", "")>>
    ELSE <<>>

\* Simple_generate_recommendations without the final [:5]
Simple_generate_recommendations_uncut(risk_factors, risk_level) ==
    Simple_tier_recommendations(risk_level)
    \o Concat([i \in DOMAIN risk_factors |->
                 Simple_factor_recommendation(risk_factors[i])])

\* simple_api.py generate_recommendations: recommendations[:5]
Simple_generate_recommendations(risk_factors, risk_level) ==
    Take(Simple_tier_recommendations(risk_level)
         \o Concat([i \in DOMAIN risk_factors |->
                      Simple_factor_recommendation(risk_factors[i])]), 5)

-----------------------------------------------------------------------------
(* src/chd_prediction_api.py: the root Flask server *)

\* NORMAL_RANGES: <<min, max>> in tenths
Root_NORMAL_RANGES ==
    [age |-> <<T(18), T(65)>>, sysBP |-> <<T(90), T(120)>>, diaBP |-> <<T(60), T(80)>>,
     totChol |-> <<T(0), T(200)>>, BMI |-> <<185, 249>>, heartRate |-> <<T(60), T(100)>>,
     glucose |-> <<T(70), T(100)>>, cigsPerDay |-> <<T(0), T(0)>>]

\* preprocess_input, lines 87-92: df[col] of an absent categorical column is a
\* KeyError; Series.map gives NaN for a value that is no key
Root_map(col, v) ==
    IF col = "sex"
    THEN (IF v = Str("M") THEN Cell(T(1)) ELSE IF v = Str("F") THEN Cell(T(0)) ELSE NaN)
    ELSE (IF v = Str("YES") THEN Cell(T(1)) ELSE IF v = Str("NO") THEN Cell(T(0)) ELSE NaN)

\* preprocess_input, lines 95-100: a missing column is added as 0; the other
\* cells are the body's values, converted when the scaler reads them
Root_column(data, col) ==
    IF col \in CatSet THEN Root_map(col, data.vals[col])
    ELSE IF data.vals[col] = Absent THEN Cell(0)
    ELSE Cell(PyFloat(data.vals[col]).n)

\* preprocess_input: ok = FALSE stands for the None returned when anything
\* raises: an absent categorical column, feature_names or scaler not loaded,
\* a cell the scaler cannot convert to a number
Root_preprocess_input(data, feature_names_loaded, scaler_loaded) ==
    IF \/ \E f \in CatSet : data.vals[f] = Absent
       \/ ~feature_names_loaded
       \/ ~scaler_loaded
       \/ \E f \in NumericFields : data.vals[f] # Absent /\ ~PyFloat(data.vals[f]).ok
    THEN [ok |-> FALSE, values |-> <<>>]
    ELSE [ok |-> TRUE,
          values |-> [i \in DOMAIN FeatureColumns |-> Root_column(data, FeatureColumns[i])]]

\* analyze_feature_risk: float(value) raises for a NORMAL_RANGES feature
Root_float_raises(data) ==
    \E i \in DOMAIN data.keys :
        data.keys[i] \in DOMAIN Root_NORMAL_RANGES /\ ~PyFloat(data.vals[data.keys[i]]).ok

\* analyze_feature_risk, lines 118-161: the risk factor of one item of the body
Root_feature_risk(feature, value) ==
    IF feature \notin DOMAIN Root_NORMAL_RANGES THEN <<>>
    ELSE IF feature = "cigsPerDay"
    THEN (IF PyFloat(value).n > 0
          THEN <<RiskFactor(feature, value, "High Risk")>> ELSE <<>>)
    ELSE IF \/ PyFloat(value).n < Root_NORMAL_RANGES[feature][1]
            \/ PyFloat(value).n > Root_NORMAL_RANGES[feature][2]
    THEN <<RiskFactor(feature, value,
                      IF PyFloat(value).n > Root_NORMAL_RANGES[feature][2]
                      THEN "High Risk" ELSE "Low Risk")>>
    ELSE <<>>

\* analyze_feature_risk: risk_factors, from the loop over data.items()
Root_risk_factors(data) ==
    Concat([i \in DOMAIN data.keys |->
              Root_feature_risk(data.keys[i], data.vals[data.keys[i]])])

\* analyze_feature_risk: normal_values (the items not in risk_factors)
Root_normal_values(data) ==
    Concat([i \in DOMAIN data.keys |->
        IF /\ data.keys[i] \in DOMAIN Root_NORMAL_RANGES
           /\ Root_feature_risk(data.keys[i], data.vals[data.keys[i]]) = <<>>
        THEN <<RiskFactor(data.keys[i], data.vals[data.keys[i]], "Normal")>>
        ELSE <<>>])

\* generate_recommendations, lines 371-394: the level a factor's value is
\* compared with, in tenths
Root_recommendation_level(feature) ==
    CASE feature = "sysBP" -> T(140)
      [] feature = "totChol" -> T(240)
      [] feature = "BMI" -> T(30)
      [] feature = "cigsPerDay" -> T(0)

Root_recommendation_title(feature) ==
    CASE feature = "sysBP" -> "High Blood Pressure"
      [] feature = "totChol" -> "High Cholesterol"
      [] feature = "BMI" -> "Obesity Risk"
      [] feature = "cigsPerDay" -> "Smoking Cessation"

Root_recommendation_features == {"sysBP", "totChol", "BMI", "cigsPerDay"}

\* generate_recommendations: risk_factor['value'] > n with the body's own
\* value, a TypeError when that value is a string
Root_recommendations_raise(risk_factors) ==
    \E i \in DOMAIN risk_factors :
        /\ risk_factors[i].feature \in Root_recommendation_features
        /\ risk_factors[i].value.k = "str"

\* Root_generate_recommendations with the three general items put first
Root_generate_recommendations_general_first(risk_factors) ==
    <<Rec("Regular Exercise", "info", ""), Rec("Healthy Diet", "info", ""),
      Rec("Regular Checkups", "info", "")>>
    \o (IF Len(risk_factors) > 3 THEN <<Rec("High Risk Detected", "urgent", "")>> ELSE <<>>)
    \o Concat([i \in DOMAIN risk_factors |->
        LET feature == risk_factors[i].feature
        IN IF /\ feature \in Root_recommendation_features
              /\ risk_factors[i].value.n > Root_recommendation_level(feature)
           THEN <<Rec(Root_recommendation_title(feature),
                      IF feature = "cigsPerDay" THEN "critical" ELSE "warning", "")>>
           ELSE <<>>])

\* generate_recommendations; defined when Root_recommendations_raise is false
Root_generate_recommendations(risk_factors) ==
    (IF Len(risk_factors) > 3 THEN <<Rec("High Risk Detected", "urgent", "")>> ELSE <<>>)
    \o Concat([i \in DOMAIN risk_factors |->
        LET feature == risk_factors[i].feature
        IN IF /\ feature \in Root_recommendation_features
              /\ risk_factors[i].value.n > Root_recommendation_level(feature)
           THEN <<Rec(Root_recommendation_title(feature),
                      IF feature = "cigsPerDay" THEN "critical" ELSE "warning", "")>>
           ELSE <<>>])
    \o <<Rec("Regular Exercise", "info", ""), Rec("Healthy Diet", "info", ""),
         Rec("Regular Checkups", "info", "")>>

\* predict, line 313
Root_risk_level(prediction) == IF prediction = 1 THEN "High Risk" ELSE "Low Risk"

-----------------------------------------------------------------------------
(* Process state *)

ArtifactNames == {"model", "scaler", "info"}

AllOk == [a \in ArtifactNames |-> "ok"]

\* The artifact files at process start: all readable, or one of them missing
\* or not deserializable.  "info" is models/best_model_info.json for app.py
\* and data/feature_columns.pkl for the Flask servers.
ArtifactStates ==
    {AllOk} \cup {[AllOk EXCEPT ![a] = x] : a \in ArtifactNames, x \in {"missing", "corrupt"}}

\* A request body: the JSON object's values and its keys in the client's order
EmptyObject == [vals |-> [f \in Fields |-> Absent], keys |-> <<>>, json |-> "object"]

\* A POST with Content-Type application/json and no payload: Flask's
\* request.get_json() raises BadRequest for it
MissingBody == [EmptyObject EXCEPT !.json = "missing"]

Bodies == Requests \cup {EmptyObject, MissingBody}

\* The routes of a server
Endpoints(srv) ==
    IF srv = "app" THEN {"predict", "health", "model_info"}
    ELSE {"predict", "analyze", "health"}

\* A request in flight: its endpoint and, for a POST, its JSON body
Request(endpoint, body) ==
    [endpoint |-> endpoint, vals |-> body.vals, keys |-> body.keys, json |-> body.json]

NoReq == Request("none", EmptyObject)

NoResp ==
    [kind |-> "none", status |-> 0, error |-> "", field |-> "", model_loaded |-> FALSE,
     prediction |-> 0, risk_level |-> "", probability |-> 0, risk_factors |-> <<>>,
     normal_values |-> <<>>, recommendations |-> <<>>, risk_progression |-> <<>>,
     steps |-> <<>>, values |-> <<>>, total_risk_factors |-> 0,
     total_normal_values |-> 0]

ErrorResp(kind, status, error, field, steps) ==
    [NoResp EXCEPT !.kind = kind, !.status = status, !.error = error, !.field = field,
                   !.steps = steps]

\* The history of load_model calls after one more call that returned ret
Called(calls, ret) == IF ret \/ calls = "succeeded" THEN "succeeded" ELSE "failed"

Init ==
    /\ server \in Servers
    /\ phase = "boot"
    /\ artifacts \in ArtifactStates
    /\ model = FALSE
    /\ scaler = FALSE
    /\ model_info = FALSE
    /\ pc = "idle"
    /\ req = NoReq
    /\ resp = NoResp
    /\ load_calls = "none"
    /\ figures = <<>>

\* App_load_model without the "already loaded" test of lines 355-357
App_load_model_uncached(m, s, i, arts) ==
    IF \E a \in ArtifactNames : arts[a] = "missing"
    THEN [ret |-> FALSE, model |-> m, scaler |-> s, model_info |-> i, reads |-> <<>>]
    ELSE IF arts["model"] = "corrupt"
    THEN [ret |-> FALSE, model |-> m, scaler |-> s, model_info |-> i,
          reads |-> <<"model">>]
    ELSE IF arts["scaler"] = "corrupt"
    THEN [ret |-> FALSE, model |-> TRUE, scaler |-> s, model_info |-> i,
          reads |-> <<"model", "scaler">>]
    ELSE IF arts["info"] = "corrupt"
    THEN [ret |-> FALSE, model |-> TRUE, scaler |-> TRUE, model_info |-> i,
          reads |-> <<"model", "scaler", "info">>]
    ELSE [ret |-> TRUE, model |-> TRUE, scaler |-> TRUE, model_info |-> TRUE,
          reads |-> <<"model", "scaler", "info">>]

\* backend/app.py load_model: the variables are assigned one by one, so a
\* failure part-way leaves the earlier ones set.  reads: the artifact files
\* the call opens, in order (os.path.exists opens none)
App_load_model(m, s, i, arts) ==
    IF m /\ s /\ i
    THEN [ret |-> TRUE, model |-> m, scaler |-> s, model_info |-> i, reads |-> <<>>]
    ELSE IF \E a \in ArtifactNames : arts[a] = "missing"
    THEN [ret |-> FALSE, model |-> m, scaler |-> s, model_info |-> i, reads |-> <<>>]
    ELSE IF arts["model"] = "corrupt"
    THEN [ret |-> FALSE, model |-> m, scaler |-> s, model_info |-> i,
          reads |-> <<"model">>]
    ELSE IF arts["scaler"] = "corrupt"
    THEN [ret |-> FALSE, model |-> TRUE, scaler |-> s, model_info |-> i,
          reads |-> <<"model", "scaler">>]
    ELSE IF arts["info"] = "corrupt"
    THEN [ret |-> FALSE, model |-> TRUE, scaler |-> TRUE, model_info |-> i,
          reads |-> <<"model", "scaler", "info">>]
    ELSE [ret |-> TRUE, model |-> TRUE, scaler |-> TRUE, model_info |-> TRUE,
          reads |-> <<"model", "scaler", "info">>]

\* Flask_load_model that returns True without assigning the model variable
Flask_load_model_no_model(m, s, i, arts) ==
    IF arts = AllOk
    THEN [ret |-> TRUE, model |-> m, scaler |-> TRUE, model_info |-> TRUE]
    ELSE [ret |-> FALSE, model |-> m, scaler |-> s, model_info |-> i]

\* load_model of the three Flask servers: open and unpickle model, scaler,
\* feature list in turn; any exception returns False
Flask_load_model(m, s, i, arts) ==
    IF arts["model"] # "ok"
    THEN [ret |-> FALSE, model |-> m, scaler |-> s, model_info |-> i]
    ELSE IF arts["scaler"] # "ok"
    THEN [ret |-> FALSE, model |-> TRUE, scaler |-> s, model_info |-> i]
    ELSE IF arts["info"] # "ok"
    THEN [ret |-> FALSE, model |-> TRUE, scaler |-> TRUE, model_info |-> i]
    ELSE [ret |-> TRUE, model |-> TRUE, scaler |-> TRUE, model_info |-> TRUE]

\* app.py lifespan: load_model() at startup, its result ignored
AppStartup ==
    /\ server = "app" /\ phase = "boot"
    /\ LET ld == App_load_model(model, scaler, model_info, artifacts)
       IN /\ model' = ld.model
          /\ scaler' = ld.scaler
          /\ model_info' = ld.model_info
          /\ load_calls' = Called(load_calls, ld.ret)
    /\ phase' = "serving"
    /\ UNCHANGED <<server, artifacts, pc, req, resp, figures>>

\* The Flask servers' __main__ block: the server runs only if load_model()
\* returned True, else the process ends
FlaskStartup ==
    /\ server # "app" /\ phase = "boot"
    /\ LET ld == Flask_load_model(model, scaler, model_info, artifacts)
       IN /\ model' = ld.model
          /\ scaler' = ld.scaler
          /\ model_info' = ld.model_info
          /\ load_calls' = Called(load_calls, ld.ret)
          /\ phase' = IF ld.ret THEN "serving" ELSE "exited"
    /\ UNCHANGED <<server, artifacts, pc, req, resp, figures>>

\* A Flask module served by a WSGI host that imports it: __main__ does not
\* run, nothing is loaded
FlaskImported ==
    /\ server # "app" /\ phase = "boot"
    /\ phase' = "serving"
    /\ UNCHANGED <<server, artifacts, model, scaler, model_info, pc, req, resp,
                 load_calls, figures>>

\* The environment: the training pipeline (train_model.py) writes the artifacts
Deploy ==
    /\ phase = "serving" /\ pc = "idle"
    /\ artifacts # AllOk
    /\ artifacts' = AllOk
    /\ UNCHANGED <<server, phase, model, scaler, model_info, pc, req, resp,
                 load_calls, figures>>

\* A client's request arrives
Receive ==
    /\ phase = "serving" /\ pc = "idle"
    /\ \E e \in Endpoints(server) :
         \E b \in IF e \in {"predict", "analyze"} THEN Bodies ELSE {EmptyObject} :
            req' = Request(e, b)
    /\ pc' = "received"
    /\ UNCHANGED <<server, phase, artifacts, model, scaler, model_info, resp,
                 load_calls, figures>>

\* The response leaves the server
Deliver ==
    /\ pc = "responded"
    /\ pc' = "idle"
    /\ req' = NoReq
    /\ resp' = NoResp
    /\ UNCHANGED <<server, phase, artifacts, model, scaler, model_info,
                 load_calls, figures>>

\* health_check: model_loaded is "model is not None"; app.py's status follows
\* it, the Flask servers' status is always "healthy"
Health_response(srv, m) ==
    [NoResp EXCEPT !.kind = "health", !.status = 200, !.model_loaded = m,
                   !.error = IF srv = "app" /\ ~m THEN "unhealthy" ELSE "healthy"]

\* GET /health of every server
Health ==
    /\ pc = "received" /\ req.endpoint = "health"
    /\ pc' = "responded"
    /\ resp' = Health_response(server, model)
    /\ UNCHANGED <<server, phase, artifacts, model, scaler, model_info, req,
                 load_calls, figures>>

\* get_model_info
App_get_model_info(i) ==
    IF ~i THEN ErrorResp("model_info", 503, "Model info not available", "", <<>>)
    ELSE [NoResp EXCEPT !.kind = "model_info", !.status = 200]

\* app.py GET /model/info
AppModelInfo ==
    /\ server = "app" /\ pc = "received" /\ req.endpoint = "model_info"
    /\ pc' = "responded"
    /\ resp' = App_get_model_info(model_info)
    /\ UNCHANGED <<server, phase, artifacts, model, scaler, model_info, req,
                 load_calls, figures>>

-----------------------------------------------------------------------------
(* Request handlers *)

Cells(values) == [i \in DOMAIN values |-> Cell(values[i])]

\* app.py predict, lines 442-577, for a validated request and the model's
\* answer.  The HTTPException(400) raised for a ValueError of the mapping is
\* raised inside the outer try, whose "except Exception" catches it and
\* raises HTTPException(500, "Prediction error: " + str(e)) in its place.
App_predict_body(request, prediction, disease_prob, loaded) ==
    IF App_first_invalid(request) # ""
    THEN ErrorResp("predict", 500, "Prediction error: 400: Invalid value",
                   App_first_invalid(request), loaded \o <<"encode">>)
    ELSE LET data_dict == App_data_dict(request)
             risk_level == App_risk_level(disease_prob)
             risk_factors == App_risk_factors(data_dict)
         IN [NoResp EXCEPT
                !.kind = "predict",
                !.status = 200,
                !.prediction = prediction,
                !.risk_level = risk_level,
                !.probability = disease_prob,
                !.risk_factors = risk_factors,
                !.recommendations =
                    App_generate_recommendations(risk_factors, risk_level, data_dict),
                !.values = Cells(App_data(request)),
                !.steps = loaded \o <<"encode", "scale", "predict", "predict_proba",
                                      "tier", "analyze", "recommend">>]

\* app.py POST /predict
AppPredict ==
    /\ server = "app" /\ pc = "received" /\ req.endpoint = "predict"
    /\ pc' = "responded"
    /\ \E out \in ModelOutputs :
        /\ IF ~App_PredictionRequest(req)
           THEN /\ resp' = ErrorResp("predict", 422, "validation error", "", <<>>)
                /\ UNCHANGED <<model, scaler, model_info, load_calls>>
           ELSE LET lazy == ~model \/ ~scaler
                    ld == IF lazy
                          THEN App_load_model(model, scaler, model_info, artifacts)
                          ELSE [ret |-> TRUE, model |-> model, scaler |-> scaler,
                                model_info |-> model_info]
                IN /\ model' = ld.model
                   /\ scaler' = ld.scaler
                   /\ model_info' = ld.model_info
                   /\ load_calls' = IF lazy THEN Called(load_calls, ld.ret)
                                    ELSE load_calls
                   /\ resp' = IF ~ld.ret
                              THEN ErrorResp("predict", 503,
                                             "Model not loaded and could not be loaded automatically",
                                             "", <<"load">>)
                              ELSE App_predict_body(App_request(req), out.prediction,
                                                    out.p,
                                                    IF lazy THEN <<"load">> ELSE <<>>)
    /\ UNCHANGED <<server, phase, artifacts, req, figures>>

\* The recommendation step of the two backend Flask servers: ok = FALSE when
\* chd_prediction_api.py's preventive pass raises
Flask_recommend(srv, risk_factors, risk_level, data) ==
    IF srv = "simple"
    THEN [ok |-> TRUE, recs |-> Simple_generate_recommendations(risk_factors, risk_level)]
    ELSE IF risk_level = "Low" /\ Flask_preventive_raises(data)
    THEN [ok |-> FALSE, recs |-> <<>>]
    ELSE [ok |-> TRUE, recs |-> Flask_generate_recommendations(risk_factors, risk_level, data)]

\* predict of backend/chd_prediction_api.py and backend/simple_api.py
Flask_predict_response(srv, data, prediction, chd_probability, m, fc) ==
    IF ~m THEN ErrorResp("predict", 500, "Model not loaded", "", <<>>)
    ELSE IF data.json = "missing"
    THEN ErrorResp("predict", 500, "Internal server error", "", <<>>)
    ELSE IF data.keys = <<>> THEN ErrorResp("predict", 400, "No data provided", "", <<>>)
    ELSE IF ~Flask_preprocess_input(data, fc).ok
    THEN ErrorResp("predict", 400, "Invalid input data", "", <<"preprocess">>)
    ELSE IF Flask_float_raises(data)
    THEN ErrorResp("predict", 500, "Internal server error", "",
                   <<"preprocess", "predict", "predict_proba", "analyze">>)
    ELSE LET risk_factors == Flask_analyze_risk_factors(data)
             risk_level == Flask_risk_level(chd_probability)
             rec == Flask_recommend(srv, risk_factors, risk_level, data)
         IN IF ~rec.ok
            THEN ErrorResp("predict", 500, "Internal server error", "",
                           <<"preprocess", "predict", "predict_proba", "analyze",
                             "tier", "recommend">>)
            ELSE [NoResp EXCEPT
                    !.kind = "predict",
                    !.status = 200,
                    !.prediction = prediction,
                    !.risk_level = risk_level,
                    !.probability = chd_probability,
                    !.risk_factors = risk_factors,
                    !.total_risk_factors = Len(risk_factors),
                    !.recommendations = rec.recs,
                    !.risk_progression =
                        IF srv = "flask" /\ risk_level = "Low"
                        THEN Flask_analyze_risk_progression(data) ELSE <<>>,
                    !.values = Cells(Flask_preprocess_input(data, fc).values),
                    !.steps = <<"preprocess", "predict", "predict_proba", "analyze",
                                "tier", "recommend">>]

FlaskPredict ==
    /\ server \in FlaskServers /\ pc = "received" /\ req.endpoint = "predict"
    /\ pc' = "responded"
    /\ \E out \in ModelOutputs :
        resp' = Flask_predict_response(server, req, out.prediction, out.p, model, model_info)
    /\ UNCHANGED <<server, phase, artifacts, model, scaler, model_info, req,
                 load_calls, figures>>

\* Flask_analyze_response with total_normal_values counting the range features
\* the body holds instead of the entries of normal_values
Flask_analyze_response_counting_present(data) ==
    IF data.json = "missing"
    THEN ErrorResp("analyze", 500, "Internal server error", "", <<>>)
    ELSE IF data.keys = <<>> THEN ErrorResp("analyze", 400, "No data provided", "", <<>>)
    ELSE IF Flask_float_raises(data)
    THEN ErrorResp("analyze", 500, "Internal server error", "", <<"analyze">>)
    ELSE [NoResp EXCEPT
            !.kind = "analyze",
            !.status = 200,
            !.risk_factors = Flask_analyze_risk_factors(data),
            !.normal_values = Flask_normal_values(data),
            !.total_risk_factors = Len(Flask_analyze_risk_factors(data)),
            !.total_normal_values =
                Cardinality({i \in DOMAIN Flask_normal_ranges :
                                data.vals[Flask_normal_ranges[i][1]] # Absent}),
            !.steps = <<"analyze">>]

\* analyze of backend/chd_prediction_api.py and backend/simple_api.py
Flask_analyze_response(data) ==
    IF data.json = "missing"
    THEN ErrorResp("analyze", 500, "Internal server error", "", <<>>)
    ELSE IF data.keys = <<>> THEN ErrorResp("analyze", 400, "No data provided", "", <<>>)
    ELSE IF Flask_float_raises(data)
    THEN ErrorResp("analyze", 500, "Internal server error", "", <<"analyze">>)
    ELSE [NoResp EXCEPT
            !.kind = "analyze",
            !.status = 200,
            !.risk_factors = Flask_analyze_risk_factors(data),
            !.normal_values = Flask_normal_values(data),
            !.total_risk_factors = Len(Flask_analyze_risk_factors(data)),
            !.total_normal_values = Len(Flask_normal_values(data)),
            !.steps = <<"analyze">>]

FlaskAnalyze ==
    /\ server \in FlaskServers /\ pc = "received" /\ req.endpoint = "analyze"
    /\ pc' = "responded"
    /\ resp' = Flask_analyze_response(req)
    /\ UNCHANGED <<server, phase, artifacts, model, scaler, model_info, req,
                 load_calls, figures>>

\* src/chd_prediction_api.py predict.  model_raises: whether the estimator
\* raises on a vector that holds NaN (it depends on the pickled estimator).
Root_predict_response(data, prediction, p, model_raises, m, s, fn) ==
    IF ~m THEN ErrorResp("predict", 500, "Model not loaded", "", <<>>)
    ELSE IF data.json = "missing"
    THEN ErrorResp("predict", 500, "str(e): BadRequest", "", <<>>)
    ELSE IF data.keys = <<>> THEN ErrorResp("predict", 400, "No data provided", "", <<>>)
    ELSE IF ~Root_preprocess_input(data, fn, s).ok
    THEN ErrorResp("predict", 400, "Invalid input data", "", <<"preprocess">>)
    ELSE IF model_raises /\ \E i \in DOMAIN FeatureColumns :
                               Root_preprocess_input(data, fn, s).values[i].nan
    THEN ErrorResp("predict", 500, "str(e): model", "", <<"preprocess", "scale", "predict">>)
    ELSE IF Root_recommendations_raise(Root_risk_factors(data))
    THEN ErrorResp("predict", 500, "str(e): TypeError", "",
                   <<"preprocess", "scale", "predict", "predict_proba", "analyze",
                     "recommend">>)
    ELSE [NoResp EXCEPT
            !.kind = "predict",
            !.status = 200,
            !.prediction = prediction,
            !.risk_level = Root_risk_level(prediction),
            !.probability = p,
            !.risk_factors = Root_risk_factors(data),
            !.total_risk_factors = Len(Root_risk_factors(data)),
            !.normal_values = Root_normal_values(data),
            !.recommendations = Root_generate_recommendations(Root_risk_factors(data)),
            !.values = Root_preprocess_input(data, fn, s).values,
            !.steps = <<"preprocess", "scale", "predict", "predict_proba", "analyze",
                        "recommend">>]

RootPredict ==
    /\ server = "root" /\ pc = "received" /\ req.endpoint = "predict"
    /\ pc' = "responded"
    /\ \E out \in ModelOutputs, model_raises \in BOOLEAN :
        resp' = Root_predict_response(req, out.prediction, out.p, model_raises, model,
                                      scaler, model_info)
    /\ UNCHANGED <<server, phase, artifacts, model, scaler, model_info, req,
                 load_calls, figures>>

\* src/chd_prediction_api.py analyze
Root_analyze_response(data) ==
    IF data.json = "missing"
    THEN ErrorResp("analyze", 500, "str(e): BadRequest", "", <<>>)
    ELSE IF data.keys = <<>> THEN ErrorResp("analyze", 400, "No data provided", "", <<>>)
    ELSE IF Root_float_raises(data)
    THEN ErrorResp("analyze", 500, "str(e): ValueError", "", <<"analyze">>)
    ELSE IF Root_recommendations_raise(Root_risk_factors(data))
    THEN ErrorResp("analyze", 500, "str(e): TypeError", "", <<"analyze", "recommend">>)
    ELSE [NoResp EXCEPT
            !.kind = "analyze",
            !.status = 200,
            !.risk_factors = Root_risk_factors(data),
            !.total_risk_factors = Len(Root_risk_factors(data)),
            !.normal_values = Root_normal_values(data),
            !.recommendations = Root_generate_recommendations(Root_risk_factors(data)),
            !.steps = <<"analyze", "recommend">>]

RootAnalyze ==
    /\ server = "root" /\ pc = "received" /\ req.endpoint = "analyze"
    /\ pc' = "responded"
    /\ resp' = Root_analyze_response(req)
    /\ UNCHANGED <<server, phase, artifacts, model, scaler, model_info, req,
                 load_calls, figures>>

Next ==
    \/ AppStartup
    \/ FlaskStartup
    \/ FlaskImported
    \/ Deploy
    \/ Receive
    \/ Deliver
    \/ Health
    \/ AppModelInfo
    \/ AppPredict
    \/ FlaskPredict
    \/ FlaskAnalyze
    \/ RootPredict
    \/ RootAnalyze

Spec == Init /\ [][Next]_vars

-----------------------------------------------------------------------------
(* backend/app.py started more than once in one process.  The lifespan      *)
(* context calls load_model() each time the ASGI application is started;    *)
(* the module's globals outlive a shutdown, so a later start finds whatever *)
(* the earlier loads left in model, scaler and model_info.                  *)

InitLifespan == Init /\ server = "app"

\* lifespan after the yield: the application shuts down, the module stays
\* imported
LifespanShutdown ==
    /\ server = "app" /\ phase = "serving" /\ pc = "idle"
    /\ phase' = "boot"
    /\ UNCHANGED <<server, artifacts, model, scaler, model_info, pc, req, resp,
                 load_calls, figures>>

\* The environment: while the application is down the files under models/
\* are replaced, removed or damaged
ArtifactsReplaced ==
    /\ server = "app" /\ phase = "boot" /\ load_calls # "none"
    /\ artifacts' \in ArtifactStates \ {artifacts}
    /\ UNCHANGED <<server, phase, model, scaler, model_info, pc, req, resp,
                 load_calls, figures>>

NextLifespan ==
    \/ AppStartup
    \/ LifespanShutdown
    \/ ArtifactsReplaced
    \/ Deploy
    \/ Receive
    \/ Deliver
    \/ Health
    \/ AppModelInfo
    \/ AppPredict

SpecLifespan == InitLifespan /\ [][NextLifespan]_vars

-----------------------------------------------------------------------------
(* Two requests in flight at once on a server whose startup load succeeded. *)
(* pc, req and resp hold one entry per worker thread.  The Flask            *)
(* development server started by app.run serves each request in its own     *)
(* thread; app.py's handlers are coroutines without an await, which the     *)
(* event loop runs one after the other.  The handlers share the loaded      *)
(* globals and, in src/chd_prediction_api.py, matplotlib.pyplot's list of   *)
(* open figures, whose last entry is the "current figure".                  *)

Threads == {1, 2}

\* The bodies and model answers of the concurrent requests
ConcurrentBodies ==
    {[vals |-> b, keys |-> KeysOf(b, FeatureColumns), json |-> "object"] : b \in Profiles}
        \cup {EmptyObject}

ConcurrentOutputs == {o \in ModelOutputs : o.p \in {10, 70}}

\* create_risk_visualization: what the figure drawn for a body shows
Chart(data) ==
    [kind |-> "chart",
     sysBP |-> data.vals["sysBP"], diaBP |-> data.vals["diaBP"],
     totChol |-> data.vals["totChol"], BMI |-> data.vals["BMI"],
     risk_count |-> Len(Root_risk_factors(data)),
     normal_count |-> Len(Root_normal_values(data))]

\* No visualization in the response
NoFigure ==
    [kind |-> "none", sysBP |-> Absent, diaBP |-> Absent, totChol |-> Absent,
     BMI |-> Absent, risk_count |-> 0, normal_count |-> 0]

NoThreadReq == [request |-> NoReq, out |-> [prediction |-> 0, p |-> 0]]

NoThreadResp == [response |-> NoResp, visualization |-> NoFigure]

\* app.py predict on a loaded model: 422 from the framework's validation,
\* else the handler's body
App_predict_loaded(request, out) ==
    IF ~App_PredictionRequest(request)
    THEN ErrorResp("predict", 422, "validation error", "", <<>>)
    ELSE App_predict_body(App_request(request), out.prediction, out.p, <<>>)

\* The JSON fields a handler computes from its own request and the globals
HandlerResponse(srv, r, m, s, i) ==
    CASE r.request.endpoint = "health" -> Health_response(srv, m)
      [] r.request.endpoint = "model_info" -> App_get_model_info(i)
      [] r.request.endpoint = "predict" ->
           IF srv = "app" THEN App_predict_loaded(r.request, r.out)
           ELSE IF srv \in FlaskServers
           THEN Flask_predict_response(srv, r.request, r.out.prediction, r.out.p, m, i)
           ELSE Root_predict_response(r.request, r.out.prediction, r.out.p, FALSE, m, s, i)
      [] r.request.endpoint = "analyze" ->
           IF srv \in FlaskServers THEN Flask_analyze_response(r.request)
           ELSE Root_analyze_response(r.request)

\* src/chd_prediction_api.py predict and analyze call
\* create_risk_visualization after analyze_feature_risk returned and before
\* generate_recommendations
Visualizes(srv, r, m, s, i) ==
    /\ srv = "root"
    /\ r.request.endpoint \in {"predict", "analyze"}
    /\ "recommend" \in Range(HandlerResponse(srv, r, m, s, i).steps)

InitConcurrent ==
    /\ server \in Servers
    /\ phase = "serving"
    /\ artifacts = AllOk
    /\ model = TRUE
    /\ scaler = TRUE
    /\ model_info = TRUE
    /\ load_calls = "succeeded"
    /\ figures = <<>>
    /\ pc = [t \in Threads |-> "idle"]
    /\ req = [t \in Threads |-> NoThreadReq]
    /\ resp = [t \in Threads |-> NoThreadResp]

\* A request arrives and is given to an idle thread
ThreadReceive ==
    \E t \in Threads :
        /\ pc[t] = "idle"
        /\ \E e \in Endpoints(server), o \in ConcurrentOutputs :
             \E b \in IF e \in {"predict", "analyze"} THEN ConcurrentBodies
                       ELSE {EmptyObject} :
                req' = [req EXCEPT ![t] = [request |-> Request(e, b), out |-> o]]
        /\ pc' = [pc EXCEPT ![t] = "received"]
        /\ UNCHANGED <<server, phase, artifacts, model, scaler, model_info, resp,
                       load_calls, figures>>

\* A handler that draws no figure runs to its response: it reads the globals
\* and its own request only
ThreadHandle ==
    \E t \in Threads :
        /\ pc[t] = "received"
        /\ ~Visualizes(server, req[t], model, scaler, model_info)
        /\ resp' = [resp EXCEPT ![t] =
                       [response |-> HandlerResponse(server, req[t], model, scaler,
                                                     model_info),
                        visualization |-> NoFigure]]
        /\ pc' = [pc EXCEPT ![t] = "responded"]
        /\ UNCHANGED <<server, phase, artifacts, model, scaler, model_info, req,
                       load_calls, figures>>

\* create_risk_visualization, lines 173-228: plt.subplots opens a new figure,
\* which becomes the current one, and the handler draws its data on it
RootDraw ==
    \E t \in Threads :
        /\ pc[t] = "received"
        /\ Visualizes(server, req[t], model, scaler, model_info)
        /\ figures' = Append(figures, Chart(req[t].request))
        /\ pc' = [pc EXCEPT ![t] = "drawn"]
        /\ UNCHANGED <<server, phase, artifacts, model, scaler, model_info, req, resp,
                       load_calls>>

\* create_risk_visualization, lines 230-234: plt.savefig writes the current
\* figure (a figure is open: this thread's own was not closed by itself)
RootSavefig ==
    \E t \in Threads :
        /\ pc[t] = "drawn"
        /\ figures # <<>>
        /\ resp' = [resp EXCEPT ![t].visualization = figures[Len(figures)]]
        /\ pc' = [pc EXCEPT ![t] = "saved"]
        /\ UNCHANGED <<server, phase, artifacts, model, scaler, model_info, req,
                       load_calls, figures>>

\* create_risk_visualization, line 235: plt.close() closes the current
\* figure; the handler then builds its response (the visualization is part
\* of a 200 response only)
RootClose ==
    \E t \in Threads :
        /\ pc[t] = "saved"
        /\ figures # <<>>
        /\ figures' = SubSeq(figures, 1, Len(figures) - 1)
        /\ LET r == HandlerResponse(server, req[t], model, scaler, model_info)
           IN resp' = [resp EXCEPT ![t] =
                          [response |-> r,
                           visualization |-> IF r.status = 200
                                             THEN resp[t].visualization
                                             ELSE NoFigure]]
        /\ pc' = [pc EXCEPT ![t] = "responded"]
        /\ UNCHANGED <<server, phase, artifacts, model, scaler, model_info, req,
                       load_calls>>

\* The response leaves the server
ThreadDeliver ==
    \E t \in Threads :
        /\ pc[t] = "responded"
        /\ pc' = [pc EXCEPT ![t] = "idle"]
        /\ req' = [req EXCEPT ![t] = NoThreadReq]
        /\ resp' = [resp EXCEPT ![t] = NoThreadResp]
        /\ UNCHANGED <<server, phase, artifacts, model, scaler, model_info,
                       load_calls, figures>>

NextConcurrent ==
    \/ ThreadReceive
    \/ ThreadHandle
    \/ RootDraw
    \/ RootSavefig
    \/ RootClose
    \/ ThreadDeliver

SpecConcurrent == InitConcurrent /\ [][NextConcurrent]_vars

-----------------------------------------------------------------------------
(* Properties *)

\* A response of endpoint e is ready
Responded(e) == pc = "responded" /\ req.endpoint = e

\* The body in flight with its keys listed in order o
Reordered(o) == [req EXCEPT !.keys = KeysOf(req.vals, o)]

\* A tier label, spelling aside: Low = 1, Medium = 2, High = 3, no tier = 0
TierRank(label) ==
    CASE label \in {"LOW RISK", "Low"} -> 1
      [] label \in {"MEDIUM RISK", "Medium"} -> 2
      [] label \in {"HIGH RISK", "High"} -> 3
      [] OTHER -> 0

\* C1: app.py answers a /predict whose categorical value matches no entry of
\* CATEGORICAL_MAPPINGS, on a loaded model, with HTTP 400 naming the field,
\* and runs no inference for it.
C1_InvalidCategoricalIs400 ==
    (/\ server = "app" /\ Responded("predict")
     /\ App_PredictionRequest(req)
     /\ resp.status # 503
     /\ App_first_invalid(App_request(req)) # "")
    => /\ resp.status = 400
       /\ resp.field = App_first_invalid(App_request(req))
       /\ "predict" \notin Range(resp.steps)

\* A categorical value of the body in flight that is no key of the Flask
\* servers' mapping table
Flask_unmatched(f) == req.vals[f] # Absent /\ Flask_map(f, req.vals[f]) = NaN

\* C2: the Flask servers never encode a categorical value that matches no
\* table entry as a valid code: such a /predict is rejected with HTTP 400 and
\* no prediction is returned.
C2_UnmatchedCategoricalRejected ==
    (/\ server \in FlaskServers /\ Responded("predict")
     /\ model
     /\ \E f \in CatSet : Flask_unmatched(f))
    => resp.status = 400

\* C3: for every p in [0,1] the FastAPI /predict and the Flask /predict
\* assign the same tier, label spelling aside.
C3_SameTierAcrossServers ==
    (/\ server \in {"app"} \cup FlaskServers /\ Responded("predict")
     /\ resp.status = 200
     /\ resp.probability \in 0..100)
    => /\ TierRank(resp.risk_level) = TierRank(App_risk_level(resp.probability))
       /\ TierRank(resp.risk_level) = TierRank(Flask_risk_level(resp.probability))

\* C4: in app.py, for every p in [0,1] exactly one risk_level is returned, one
\* of the three labels: HIGH RISK iff p >= 0.4, MEDIUM RISK iff
\* 0.2 <= p < 0.4, LOW RISK iff p < 0.2.
C4_AppTierThresholds ==
    (/\ server = "app" /\ Responded("predict")
     /\ resp.status = 200
     /\ resp.probability \in 0..100)
    => /\ resp.risk_level \in {"HIGH RISK", "MEDIUM RISK", "LOW RISK"}
       /\ resp.risk_level = "HIGH RISK" <=> resp.probability >= 40
       /\ resp.risk_level = "MEDIUM RISK" <=>
              (20 <= resp.probability /\ resp.probability < 40)
       /\ resp.risk_level = "LOW RISK" <=> resp.probability < 20

\* app.py returned MEDIUM RISK at the lower threshold itself
C4_Witness ==
    /\ server = "app" /\ Responded("predict")
    /\ resp.status = 200
    /\ resp.probability = 20
    /\ resp.risk_level = "MEDIUM RISK"

\* The tier a server's scheme gives probability p
TierOf(srv, p) == IF srv = "app" THEN App_risk_level(p) ELSE Flask_risk_level(p)

\* C5: in each server's tier scheme (FastAPI 0.2/0.4, Flask 0.3/0.7), for
\* all p1 < p2 in [0,1] the tier of p1 is not above the tier of p2.
C5_TierMonotonic ==
    (/\ server \in {"app"} \cup FlaskServers /\ Responded("predict")
     /\ resp.status = 200
     /\ resp.probability \in 0..100)
    => \A p2 \in 0..100 :
          /\ resp.probability < p2 =>
                TierRank(resp.risk_level) <= TierRank(TierOf(server, p2))
          /\ p2 < resp.probability =>
                TierRank(TierOf(server, p2)) <= TierRank(resp.risk_level)

\* A Flask server returned Medium, a tier with a lower and a higher one
C5_Witness ==
    /\ server \in FlaskServers /\ Responded("predict")
    /\ resp.status = 200
    /\ resp.probability = 30
    /\ resp.risk_level = "Medium"

\* C6: when the model returns a disease probability outside [0,1], every
\* /predict fails closed: an error response, no tier reported.
C6_FailsClosed ==
    (/\ Responded("predict")
     /\ resp.probability \notin 0..100)
    => /\ resp.status # 200
       /\ resp.risk_level = ""

ContinuousFeatures == {"age", "totChol", "sysBP", "diaBP", "BMI", "heartRate", "glucose"}

\* The statuses risk_factors holds for feature f
StatusesOf(risk_factors, f) ==
    {risk_factors[i].status : i \in {j \in DOMAIN risk_factors : risk_factors[j].feature = f}}

\* C7: in app.py's /predict, risk_factors holds a continuous feature iff its
\* value is outside [min, max] of NORMAL_RANGES: "High" above max, "Low"
\* below min.
C7_AppFlagsOutOfRange ==
    (/\ server = "app" /\ Responded("predict")
     /\ resp.status = 200)
    => \A f \in ContinuousFeatures :
          LET v == App_request(req)[f].n
              st == StatusesOf(resp.risk_factors, f)
          IN /\ v > App_NORMAL_RANGES[f].max => st = {"High"}
             /\ v < App_NORMAL_RANGES[f].min => st = {"Low"}
             /\ (App_NORMAL_RANGES[f].min <= v /\ v <= App_NORMAL_RANGES[f].max)
                    => st = {}

\* The risk_factors entry a Flask server makes for a boolean condition
FlaskFlagName(f) ==
    CASE f = "is_smoking" -> {"smoking", "is_smoking"}
      [] f = "prevalentStroke" -> {"stroke", "prevalentStroke"}
      [] f = "prevalentHyp" -> {"hypertension", "prevalentHyp"}
      [] f = "diabetes" -> {"diabetes"}

\* C8: in the Flask analyze_risk_factors, each of is_smoking, prevalentStroke,
\* prevalentHyp, diabetes being YES produces an entry with status "High".
C8_FlaskFlagsBooleans ==
    (/\ server \in FlaskServers /\ pc = "responded"
     /\ resp.kind \in {"predict", "analyze"}
     /\ resp.status = 200)
    => \A f \in {"is_smoking", "prevalentStroke", "prevalentHyp", "diabetes"} :
          req.vals[f] = Str("YES") =>
              \E i \in DOMAIN resp.risk_factors :
                  /\ resp.risk_factors[i].feature \in FlaskFlagName(f)
                  /\ resp.risk_factors[i].status = "High"

\* The risk factors server srv computes for body r
RiskFactorsOf(srv, r) ==
    CASE srv = "app" -> App_risk_factors(App_data_dict(App_request(r)))
      [] srv \in FlaskServers -> Flask_analyze_risk_factors(r)
      [] srv = "root" -> Root_risk_factors(r)

\* C9: two requests with the same field values and a different order of JSON
\* keys get the same sequence of risk factors, in every server.
C9_OrderIndependent ==
    (/\ pc = "responded"
     /\ resp.kind \in {"predict", "analyze"}
     /\ resp.status = 200)
    => \A o \in KeyOrders : RiskFactorsOf(server, Reordered(o)) = resp.risk_factors

\* C10: whenever app.py classifies a request as the Low tier, every feature
\* whose value v has 0.85*max < v <= max contributes a "Monitor Your
\* <feature>" recommendation to the assembled list.
C10_AppPreventivePass ==
    (/\ server = "app" /\ Responded("predict")
     /\ resp.status = 200
     /\ TierRank(resp.risk_level) = 1)
    => \A f \in Fields :
          LET v == App_data_dict(App_request(req))[f]
          IN (/\ App_NORMAL_RANGES[f].has_max
              /\ v * 100 > App_NORMAL_RANGES[f].max * 85
              /\ v <= App_NORMAL_RANGES[f].max)
             => Rec("Monitor Your", "preventive", f) \in
                    Range(App_assembled_recommendations(
                              resp.risk_factors, resp.risk_level,
                              App_data_dict(App_request(req))))

\* The positions of step name in a handler's trace of steps
StepsAt(steps, name) == {i \in DOMAIN steps : steps[i] = name}

\* C11: in every /predict implementation the model is only invoked (predict,
\* predict_proba) on a vector the loaded scaler has transformed first: in the
\* request's pipeline a scale step precedes every inference step.
C11_ScaleBeforeInference ==
    Responded("predict")
    => \A j \in StepsAt(resp.steps, "predict") \cup StepsAt(resp.steps, "predict_proba") :
          \E i \in StepsAt(resp.steps, "scale") : i < j

\* The startup load_model call failed on the classifier or the scaler
\* artifact, and no call has succeeded since
StartupLoadFailed ==
    /\ load_calls = "failed"
    /\ artifacts["model"] # "ok" \/ artifacts["scaler"] # "ok"

\* C12: if the classifier or the scaler artifact is missing or fails to
\* deserialize when load_model runs at startup, then until a load succeeds
\* /health reports model_loaded = false and no /predict returns 200: it gets
\* 503 in the FastAPI server; a Flask server whose startup load failed has
\* ended and answers nothing.
C12_StartupFailureReported ==
    StartupLoadFailed
    => /\ server # "app" => phase = "exited" /\ pc = "idle"
       /\ Responded("health") => ~resp.model_loaded
       /\ Responded("predict") =>
             /\ resp.status # 200
             /\ App_PredictionRequest(req) => resp.status = 503

\* C13: in every server /health reports model_loaded = false while
\* load_model has never been called, and model_loaded = true once a
\* load_model call has returned True.
C13_HealthReflectsLoad ==
    Responded("health")
    => /\ load_calls = "none" => ~resp.model_loaded
       /\ load_calls = "succeeded" => resp.model_loaded

\* /health answered after a load_model call that returned True
C13_Witness ==
    /\ Responded("health")
    /\ load_calls = "succeeded"
    /\ resp.model_loaded

\* C14: in app.py, when the startup load failed (and none has succeeded
\* since), every /predict retries load_model: it answers 503 as long as the
\* load fails, and the first /predict issued once the artifacts are loadable
\* loads them and proceeds to inference in that same request.
C14_PredictRetriesLoad ==
    [][(/\ server = "app" /\ load_calls = "failed"
        /\ pc = "received" /\ req.endpoint = "predict"
        /\ App_PredictionRequest(req)
        /\ pc' = "responded")
       => /\ "load" \in Range(resp'.steps)
          /\ artifacts # AllOk => resp'.status = 503
          /\ artifacts = AllOk =>
                /\ load_calls' = "succeeded"
                /\ App_first_invalid(App_request(req)) = ""
                       => "predict" \in Range(resp'.steps)]_vars

\* C15: in every server, once startup has completed, no request handler
\* writes the process-wide model, scaler, model-info / feature-list
\* variables: their values after a request equal their values before it.
C15_HandlersWriteNoGlobals ==
    [][phase = "serving" =>
          <<model, scaler, model_info>>' = <<model, scaler, model_info>>]_vars

\* The response a request gets when it is the only one in flight
Alone(srv, r) ==
    LET response == HandlerResponse(srv, r, TRUE, TRUE, TRUE)
    IN [response |-> response,
        visualization |-> IF Visualizes(srv, r, TRUE, TRUE, TRUE) /\ response.status = 200
                          THEN Chart(r.request) ELSE NoFigure]

\* C16: on a server whose model is loaded, for any interleaving of two
\* requests each request's response equals the response it would get if it
\* ran alone.
C16_ResponseAsAlone ==
    \A t \in Threads : pc[t] = "responded" => resp[t] = Alone(server, req[t])

\* C17: in every /predict implementation a request that fails on an
\* unexpected exception is answered with HTTP 500 and one generic body that
\* does not depend on the exception: every such response carries the same
\* message and names nothing of the exception.
C17_GenericErrorBody ==
    (/\ Responded("predict")
     /\ resp.status = 500
     /\ resp.error # "Model not loaded")
    => /\ resp.error = "Internal server error"
       /\ resp.field = ""

\* The body in flight holds a string that is no number in continuous field f
Unparsable(f) == req.vals[f].k = "str" /\ ~PyFloat(req.vals[f]).ok

\* C18: in the Flask servers a /predict whose continuous field holds an
\* unparsable value is processed with that field as 0 or rejected with HTTP
\* 400; nothing raises, so the request never ends in a 5xx response.
C18_UnparsableNever5xx ==
    (/\ server \in FlaskServers /\ Responded("predict")
     /\ model
     /\ \E f \in ContinuousFeatures : Unparsable(f))
    => resp.status \in {200, 400}

\* C19: in the Flask servers a POST to /predict or /analyze whose JSON body
\* is missing or is an empty object is answered with HTTP 400 in every
\* server state (model loaded or not), and neither inference nor risk
\* analysis is run for it.
C19_EmptyBodyIs400 ==
    (/\ server # "app" /\ pc = "responded"
     /\ req.endpoint \in {"predict", "analyze"}
     /\ req.keys = <<>>)
    => /\ resp.status = 400
       /\ resp.steps = <<>>

\* The documented cap of a server's recommendation list
RecommendationCap(srv) == IF srv = "simple" THEN 5 ELSE 8

\* generate_recommendations of server srv, for the body in flight
GenerateRecommendations(srv, risk_factors, risk_level) ==
    CASE srv = "app" ->
           App_generate_recommendations(risk_factors, risk_level,
                                        App_data_dict(App_request(req)))
      [] srv = "flask" -> Flask_generate_recommendations(risk_factors, risk_level, req)
      [] srv = "simple" -> Simple_generate_recommendations(risk_factors, risk_level)

\* C20: for every risk-factor list and every tier, the list returned by
\* generate_recommendations never exceeds the server's cap: 8 items in
\* backend/app.py and backend/chd_prediction_api.py, 5 in
\* backend/simple_api.py.
C20_RecommendationCap ==
    (/\ server \in {"app", "flask", "simple"} /\ Responded("predict")
     /\ resp.status = 200)
    => /\ Len(resp.recommendations) <= RecommendationCap(server)
       /\ \A tier \in IF server = "app" THEN {"HIGH RISK", "MEDIUM RISK", "LOW RISK"}
                       ELSE {"High", "Medium", "Low"} :
             (server = "flask" /\ tier = "Low" => ~Flask_preventive_raises(req))
             => Len(GenerateRecommendations(server, resp.risk_factors, tier))
                    <= RecommendationCap(server)

\* simple_api.py returned a list that the cut shortened to the cap
C20_Witness ==
    /\ server = "simple" /\ Responded("predict")
    /\ resp.status = 200
    /\ Len(resp.recommendations) = RecommendationCap("simple")
    /\ Len(Simple_tier_recommendations(resp.risk_level)) + Len(resp.risk_factors)
          > RecommendationCap("simple")

\* s is a prefix of t
IsPrefix(s, t) == Len(s) <= Len(t) /\ \A i \in DOMAIN s : s[i] = t[i]

\* The list a server's generate_recommendations assembles for the response in
\* flight: tier messages, the risk-factor messages in risk-factor order, the
\* preventive messages
Assembled(srv) ==
    IF srv = "app"
    THEN App_assembled_recommendations(resp.risk_factors, resp.risk_level,
                                       App_data_dict(App_request(req)))
    ELSE Flask_assembled_recommendations(resp.risk_factors, resp.risk_level, req)

\* The tier messages of the response in flight
TierMessages(srv) ==
    IF srv = "app" THEN App_tier_recommendations(resp.risk_level)
    ELSE Flask_tier_recommendations(resp.risk_level)

\* C21: in backend/app.py and backend/chd_prediction_api.py the list returned
\* by generate_recommendations is a prefix of the assembled list: the cut
\* drops items from the tail only, and never a tier-level message.
C21_TruncationIsPrefix ==
    (/\ server \in {"app", "flask"} /\ Responded("predict")
     /\ resp.status = 200)
    => /\ IsPrefix(resp.recommendations, Assembled(server))
       /\ IsPrefix(TierMessages(server), resp.recommendations)

\* app.py assembled more than 8 items and returned 8
C21_Witness ==
    /\ server = "app" /\ Responded("predict")
    /\ resp.status = 200
    /\ Len(Assembled("app")) > 8
    /\ Len(resp.recommendations) = 8

\* C22: in the three-tier /predict implementations (backend/app.py,
\* backend/chd_prediction_api.py, backend/simple_api.py), whenever the
\* assigned tier is Low the returned recommendations contain a "Maintain
\* Current Health Status" message.
C22_LowTierMaintainMessage ==
    (/\ server \in {"app", "flask", "simple"} /\ Responded("predict")
     /\ resp.status = 200
     /\ TierRank(resp.risk_level) = 1)
    => \E i \in DOMAIN resp.recommendations :
          resp.recommendations[i].title = "Maintain Current Health Status"

\* The position of x in sequence seq
IndexOf(seq, x) == CHOOSE i \in DOMAIN seq : seq[i] = x

\* C23: in app.py's map_categorical_to_numeric, for every categorical field
\* and every upper/lower-case variant of a valid token the returned code is
\* the code of that token (and is what the model is given), and the call
\* changes no state.
C23_CaseInsensitiveCode ==
    [][(/\ server = "app" /\ model /\ scaler
        /\ pc = "received" /\ req.endpoint = "predict"
        /\ App_PredictionRequest(req)
        /\ pc' = "responded")
       => /\ \A f \in CatSet : \A i \in DOMAIN App_CATEGORICAL_MAPPINGS(f) :
                Upper(req.vals[f].s) = Upper(App_CATEGORICAL_MAPPINGS(f)[i][1])
                => /\ App_map_categorical_to_numeric(req.vals[f].s, f)
                         = [ok |-> TRUE, code |-> App_CATEGORICAL_MAPPINGS(f)[i][2]]
                   /\ resp'.status = 200
                         => resp'.values[IndexOf(App_data_columns, f)]
                                = Cell(T(App_CATEGORICAL_MAPPINGS(f)[i][2]))
          /\ UNCHANGED <<model, scaler, model_info, artifacts>>]_vars

\* app.py encoded the mixed-case token "yEs" as 1 and answered 200
C23_Witness ==
    /\ server = "app" /\ Responded("predict")
    /\ resp.status = 200
    /\ req.vals["is_smoking"] = Str("yEs")
    /\ resp.values[IndexOf(App_data_columns, "is_smoking")] = Cell(T(1))

\* The cell server srv computes for feature f of body r
EncodedCell(srv, r, f) ==
    IF srv = "app" THEN Cell(App_data_dict(App_request(r))[f])
    ELSE IF srv \in FlaskServers THEN Cell(FillNa0(Flask_column(r, f)))
    ELSE Root_column(r, f)

\* C24: the vector handed to the model has the 15 features in the trained
\* order: app.py lists its columns in the order of train_model.py's
\* feature_columns, and in the Flask servers position i of the vector holds
\* feature i of feature_columns whatever the order of the body's JSON keys.
C24_TrainedFeatureOrder ==
    /\ App_data_columns = FeatureColumns
    /\ (Responded("predict") /\ resp.status = 200)
       => /\ Len(resp.values) = 15
          /\ \A i \in DOMAIN FeatureColumns :
                resp.values[i] = EncodedCell(server, req, FeatureColumns[i])

\* A Flask server predicted for a body whose keys came in the reverse of the
\* trained order, and the vector still starts with age and ends with glucose
C24_Witness ==
    /\ server \in FlaskServers /\ Responded("predict")
    /\ resp.status = 200
    /\ req.keys = Reverse(FeatureColumns)
    /\ resp.values[1] = Cell(FillNa0(Flask_column(req, "age")))
    /\ resp.values[15] = Cell(FillNa0(Flask_column(req, "glucose")))
    /\ resp.values[1] # resp.values[15]

\* C25: in the Flask servers a successful /analyze response has
\* total_risk_factors = len(risk_factors) and total_normal_values =
\* len(normal_values), and a successful /predict response has
\* risk_analysis.total_risk_factors = len(risk_analysis.risk_factors).
C25_TotalsAreLengths ==
    (server \in FlaskServers /\ pc = "responded" /\ resp.status = 200)
    => /\ resp.kind = "analyze"
          => /\ resp.total_risk_factors = Len(resp.risk_factors)
             /\ resp.total_normal_values = Len(resp.normal_values)
       /\ resp.kind = "predict"
          => resp.total_risk_factors = Len(resp.risk_factors)

\* A Flask /analyze answer that lists some risk factors and some normal
\* values, fewer normal values than range features in the body
C25_Witness ==
    /\ server \in FlaskServers /\ Responded("analyze")
    /\ resp.status = 200
    /\ resp.total_risk_factors = Len(resp.risk_factors)
    /\ resp.total_normal_values = Len(resp.normal_values)
    /\ Len(resp.risk_factors) >= 2
    /\ Len(resp.normal_values) >= 1

\* C26: the root server answers /predict with 200 and recommendations when
\* the body gives a numeric field as a numeric string and that value flags
\* cigsPerDay, sysBP, totChol or BMI: generating recommendations never fails.
C26_NumericStringsRecommended ==
    (/\ server = "root" /\ Responded("predict")
     /\ model
     /\ Root_preprocess_input(req, model_info, scaler).ok
     /\ \A i \in DOMAIN FeatureColumns :
           ~Root_preprocess_input(req, model_info, scaler).values[i].nan
     /\ \E i \in DOMAIN Root_risk_factors(req) :
           /\ Root_risk_factors(req)[i].feature \in Root_recommendation_features
           /\ Root_risk_factors(req)[i].value.k = "str"
           /\ PyFloat(Root_risk_factors(req)[i].value).ok)
    => /\ resp.status = 200
       /\ Len(resp.recommendations) >= 3

\* C27: in app.py's /predict every feature name occurs at most once in
\* risk_factors, for every valid request, among them the requests that
\* report prevalentHyp or diabetes as YES.
C27_AppRiskFactorsDistinct ==
    (server = "app" /\ Responded("predict") /\ resp.status = 200)
    => \A i, j \in DOMAIN resp.risk_factors :
          resp.risk_factors[i].feature = resp.risk_factors[j].feature => i = j

\* C28: app.py's load_model, called when model, scaler and model_info are
\* all loaded, returns True, leaves the three unchanged and opens no
\* artifact file, whatever state the files are in.
C28_CachedLoadModel ==
    [][(/\ server = "app" /\ phase = "boot" /\ phase' = "serving"
        /\ model /\ scaler /\ model_info)
       => /\ App_load_model(model, scaler, model_info, artifacts).ret
          /\ App_load_model(model, scaler, model_info, artifacts).reads = <<>>
          /\ model' /\ scaler' /\ model_info'
          /\ load_calls' = "succeeded"]_vars

\* The application serves with everything loaded although an artifact file
\* is missing or damaged: the files changed while it was down, and the
\* load_model() of the next start took the cached branch
C28_Witness ==
    /\ server = "app" /\ phase = "serving"
    /\ model /\ scaler /\ model_info
    /\ artifacts # AllOk
    /\ load_calls = "succeeded"

\* The number of entries of list that name feature f
Occurrences(list, f) == Cardinality({i \in DOMAIN list : list[i].feature = f})

\* C29: in the Flask servers' /analyze every range feature (age, totChol,
\* sysBP, diaBP, BMI, heartRate, glucose) that the body holds with a numeric
\* value appears in exactly one of risk_factors and normal_values, once, and
\* a range feature the body lacks appears in neither.
C29_AnalyzePartition ==
    (server \in FlaskServers /\ Responded("analyze") /\ resp.status = 200)
    => \A i \in DOMAIN Flask_normal_ranges :
          LET f == Flask_normal_ranges[i][1]
          IN Occurrences(resp.risk_factors, f) + Occurrences(resp.normal_values, f)
                = IF req.vals[f] = Absent THEN 0 ELSE 1

\* An /analyze answer with a range feature in each list, one of them on a
\* bound of its range
C29_Witness ==
    /\ server \in FlaskServers /\ Responded("analyze")
    /\ resp.status = 200
    /\ \E i, j \in DOMAIN Flask_normal_ranges :
          /\ Occurrences(resp.risk_factors, Flask_normal_ranges[i][1]) = 1
          /\ Occurrences(resp.normal_values, Flask_normal_ranges[i][1]) = 0
          /\ Occurrences(resp.normal_values, Flask_normal_ranges[j][1]) = 1
          /\ Occurrences(resp.risk_factors, Flask_normal_ranges[j][1]) = 0
          /\ PyFloat(req.vals[Flask_normal_ranges[j][1]]).n
                \in {Flask_normal_ranges[j][2], Flask_normal_ranges[j][3]}

\* An /analyze answer for a body that lacks a range feature
C29_WitnessAbsent ==
    /\ server \in FlaskServers /\ Responded("analyze")
    /\ resp.status = 200
    /\ \E i \in DOMAIN Flask_normal_ranges : req.vals[Flask_normal_ranges[i][1]] = Absent

\* The three general items that close the root server's recommendations
RootGeneralItems ==
    <<Rec("Regular Exercise", "info", ""), Rec("Healthy Diet", "info", ""),
      Rec("Regular Checkups", "info", "")>>

\* C30: the root server's generate_recommendations, which does not truncate,
\* returns between 3 and 8 items: the three general items are always the
\* last three, and before them come at most one urgent item and at most four
\* factor-specific items (one each for sysBP, totChol, BMI, cigsPerDay).
C30_RootRecommendationCount ==
    (/\ server = "root" /\ pc = "responded"
     /\ resp.kind \in {"predict", "analyze"}
     /\ resp.status = 200)
    => LET recs == resp.recommendations
           n == Len(recs)
           before == SubSeq(recs, 1, n - 3)
       IN /\ n \in 3..8
          /\ SubSeq(recs, n - 2, n) = RootGeneralItems
          /\ Cardinality({i \in DOMAIN before : before[i].priority = "urgent"}) <= 1
          /\ Cardinality({i \in DOMAIN before : before[i].priority # "urgent"}) <= 4
          /\ \A i \in DOMAIN before :
                \/ before[i].priority = "urgent"
                \/ \E f \in Root_recommendation_features :
                      before[i].title = Root_recommendation_title(f)
          /\ \A i, j \in DOMAIN before :
                (before[i].title = before[j].title) => i = j

\* The root server returned the urgent item, factor-specific items and the
\* three general items
C30_Witness ==
    /\ server = "root" /\ Responded("predict")
    /\ resp.status = 200
    /\ Len(resp.recommendations) >= 6
    /\ resp.recommendations[1].priority = "urgent"
    /\ SubSeq(resp.recommendations, Len(resp.recommendations) - 2,
              Len(resp.recommendations)) = RootGeneralItems

\* The root server returned all eight items
C30_WitnessEight ==
    /\ server = "root" /\ pc = "responded" /\ resp.status = 200
    /\ Len(resp.recommendations) = 8

====
